---- MODULE Spec2Model ----
(***************************************************************************)
(* Job execution and persistence of github_activity_tracker.               *)
(*                                                                         *)
(* One job (one job_id) is followed from its submission (start_job) over   *)
(* the background thread run_activity_tracking and its process_user        *)
(* workers to the end of the thread, together with the cancel and delete   *)
(* routes of the web application and the job's record in the job store.    *)
(*                                                                         *)
(* User names are the integers 1..n; the activity a successful fetch       *)
(* returns for user u is the record [user |-> u].  Worker 0 is the call    *)
(* process_user(users[0]) that run_activity_tracking makes in its own      *)
(* thread before it creates the pool; worker i (1 <= i <= n) is the pool   *)
(* task submitted for the i-th user.                                       *)
(*                                                                         *)
(* Spec follows the job; there the job store is the record it holds for    *)
(* the job (store), written by save_job and delete_job in one step.        *)
(* StoreSpec and FileSpec follow utils/job_storage.py itself: the content  *)
(* of jobs.json (file), the threads inside save_job, delete_job and        *)
(* clean_old_jobs between their load and their save under _lock            *)
(* (StoreSpec), and load_jobs and save_jobs on well-formed and damaged     *)
(* files (FileSpec).                                                       *)
(*                                                                         *)
(* DiskSpec is the thread of Spec on a disk whose writes fail at any       *)
(* time.  TrackSpec follows one call of track_user_activities of           *)
(* api/github_client.py through its try statements, FallbackSpec the       *)
(* copies _save_jobs_internal makes when os.replace raises, and LockSpec   *)
(* the threads that take status_lock and _lock.                            *)
(***************************************************************************)
EXTENDS Integers, Sequences, FiniteSets, TLC

\* ---------------------------------------------------------------- bounds
\* users of one job
MaxUsers == 3
\* largest max_workers a submission asks for
MaxWorkers == 3
\* largest os.cpu_count() of the host
MaxCpu == 1
\* job ids of the collection in jobs.json
MaxJobs == 3
\* threads that call the job store
MaxCallers == 2
\* largest max_age_days given to clean_old_jobs
MaxAge == 1

\* ------------------------------------------------------ program constants
\* min(8, cpu_count * 2)
WorkerCeiling == 8
\* datetime.now(), in days
Today == 3

VARIABLES
    job,             \* the job dictionary created by start_job (job_data / job)
    inReg,           \* job_id in job_sessions
    store,           \* the record jobs.json holds for job_id, or NoJob
    artifact,        \* the report directory exists on disk
    users,           \* the users list handed to the thread
    max_workers,     \* the max_workers argument / local of the thread
    outcome,         \* what the Activity Source answers for each user,
                     \* "unknown" until it is first asked
    pc,              \* position of the run_activity_tracking thread
    processed_count, \* the nonlocal counter of run_activity_tracking
    wpc,             \* position of each process_user call
    wres,            \* what each finished process_user call returned
    cancelPending,   \* cancel_job has set the status and not yet saved
    deletePending,   \* delete_job_route has popped the job, not yet deleted
    called,          \* workers that called the Activity Source
    reportCalls,     \* calls of ReportGenerator.generate_report
    cancelAccepted,  \* cancel_job has set the status to cancelled
    cancelEarly,     \* ... and did so before any worker had completed
    lateReturn,      \* finished calls that returned after that and whose
                     \* result the thread has not taken yet
    file,            \* the content of jobs.json, the whole collection
    backups,         \* the contents kept in jobs.json.bak.<timestamp> files
    lock,            \* the thread holding _lock of job_storage, 0: free
    call,            \* the job store operation each thread is in
    ret,             \* what the last finished job store operation returned
    expect,          \* the record last given to the store for each job id
    cleaned,         \* the clean_old_jobs calls finished since the file was
                     \* last written by another operation: their
                     \* max_age_days (0: no such call) and what the first
                     \* of them removed
    diskOk,          \* the disk takes the writes of _save_jobs_internal
    github,          \* what self.github of the tracker does when called
    tpc,             \* position of a track_user_activities call
    user_activities, \* the local list of track_user_activities
    logged,          \* the logger.error calls track_user_activities made
    searched,        \* the search_issues calls it made
    result,          \* what it returned
    bak,             \* the content of jobs.json.bak
    fallback,        \* the step _save_jobs_internal is at after os.replace
                     \* raised, with the file's content before (old) and
                     \* the temporary file's content (new)
    status_lock,     \* the thread holding status_lock, 0: free
    at               \* where each thread of the job is with the two locks

appVars == <<job, inReg, store, artifact, users, max_workers, outcome, pc,
             processed_count, wpc, wres, cancelPending, deletePending, called,
             reportCalls, cancelAccepted, cancelEarly, lateReturn>>

storeVars == <<file, backups, lock, call, ret, expect, cleaned>>

trackVars == <<github, tpc, user_activities, logged, searched, result>>

fallbackVars == <<bak, fallback>>

lockVars == <<status_lock, at>>

envVars == <<diskOk, trackVars, fallbackVars, lockVars>>

vars == <<appVars, storeVars, envVars>>

jobVars  == <<job, inReg, store, artifact>>
argVars  == <<users, max_workers, outcome>>
histVars == <<called, reportCalls, cancelAccepted, cancelEarly, lateReturn>>

\* ---------------------------------------------------------------- values
None == "None"
\* current_user = None (user names are 1..n)
NoUser == 0
Now  == "now"

NoJob == [absent |-> TRUE]

NonTerminal == {"initializing", "running", "generating_report"}
Terminal    == {"completed", "failed", "cancelled"}

Workers == 0 .. MaxUsers

Min(a, b) == IF a <= b THEN a ELSE b

Range(s) == {s[i] : i \in 1 .. Len(s)}

\* the user a worker processes: users[0] for the test call
UserOf(w) == IF w = 0 THEN users[1] ELSE users[w]

\* the error strings, as <<kind, user>> (NoUser: not about one user)
Err(kind, u) == <<kind, u>>

\* ----------------------------------------------- job_storage: the values
JobIds  == 1 .. MaxJobs
Callers == 1 .. MaxCallers

\* a time value of a record: None, a datetime (in days), or its ISO string
Null         == [form |-> "null", t |-> 0]
DateTime(t)  == [form |-> "datetime", t |-> t]
IsoString(t) == [form |-> "string", t |-> t]

\* datetime.isoformat
IsoFormat(v) == IF v.form = "datetime" THEN IsoString(v.t) ELSE v

\* datetime.fromisoformat, applied to a field that is set
FromIsoFormat(v) == IF v.form = "string" THEN DateTime(v.t) ELSE v

\* job_id not in the collection
Absent == [shape |-> "absent"]

\* no record was given to the store for the job id yet
Unknown == [shape |-> "unknown"]

\* a value of the collection.  shape "dict": a mapping with the fields of a
\* job; "partial": a mapping without status, times and activities; "scalar":
\* a value that is not a mapping.  serializable: json can encode every value
\* of it.  An activity is [mapping, date]: mapping tells a dict from any
\* other value, date is its "date" entry.
JobValue(sh, st, s, e, acts, errs, ser) ==
    [shape |-> sh, status |-> st, start_time |-> s, end_time |-> e,
     activities |-> acts, errors |-> errs, serializable |-> ser]

IsMapping(r) == r.shape \in {"dict", "partial"}

\* the record _load_jobs_internal puts in the place of a value that is not
\* a mapping
Placeholder ==
    JobValue("dict", "unknown", DateTime(Today), DateTime(Today), <<>>,
             <<"Invalid job data recovered">>, TRUE)

NoJobs == [i \in JobIds |-> Absent]

\* jobs.json: no file, a JSON object, a JSON value that is no object, or
\* text that is no JSON
JobsFile(jobs) == [form |-> "object", jobs |-> jobs]
MissingFile    == [form |-> "missing", jobs |-> NoJobs]
ArrayFile      == [form |-> "array", jobs |-> NoJobs]
TextFile       == [form |-> "text", jobs |-> NoJobs]
EmptyFile      == JobsFile(NoJobs)

\* a thread outside the job store
Idle == [op |-> "idle", id |-> 0, rec |-> Absent, age |-> 0, jobs |-> NoJobs]

InCall(op, id, rec, age, jobs) ==
    [op |-> op, id |-> id, rec |-> rec, age |-> age, jobs |-> jobs]

\* a return value: ok of save_job, save_jobs and delete_job, rec of get_job,
\* jobs of load_jobs, count of clean_old_jobs; why: the branch by which
\* save_jobs returned false
Returned(op, ok, rec, jobs, count) ==
    [op |-> op, ok |-> ok, rec |-> rec, jobs |-> jobs, count |-> count,
     why |-> ""]

NoReturn == Returned("none", FALSE, Absent, NoJobs, 0)

NotCleaned == [age |-> 0, removed |-> 0]

\* ------------------------------------ job_storage: the internal functions
\* _ensure_jobs_file
EnsureJobsFile(f) == IF f.form = "missing" THEN EmptyFile ELSE f

\* lines 103-140: one value of the parsed object
LoadedValue(r) ==
    IF r = Absent THEN Absent
    ELSE IF IsMapping(r)
    THEN [r EXCEPT !.start_time = FromIsoFormat(@),
                   !.end_time = FromIsoFormat(@)]
    ELSE Placeholder

\* _load_jobs_internal: what it returns, the file it leaves and the backup
\* it makes
LoadJobsInternal(f0) ==
    LET f == EnsureJobsFile(f0)
    IN CASE f.form = "text" ->
              [jobs |-> NoJobs, file |-> EmptyFile, backup |-> {f}]
         [] f.form = "array" ->
              [jobs |-> NoJobs, file |-> EmptyFile, backup |-> {}]
         [] OTHER ->
              [jobs |-> [i \in JobIds |-> LoadedValue(f.jobs[i])],
               file |-> f, backup |-> {}]

\* lines 193-217: job_copy
SerializableCopy(r) ==
    [r EXCEPT !.start_time = IsoFormat(@),
              !.end_time = IsoFormat(@),
              !.activities = SelectSeq(@, LAMBDA a : a.mapping)]

\* lines 186-219: jobs_to_save
JobsToSave(jobs) ==
    [i \in JobIds |->
       IF jobs[i] # Absent /\ IsMapping(jobs[i])
       THEN SerializableCopy(jobs[i]) ELSE Absent]

\* json.dump raises on a value that DateTimeEncoder.default hands on
Encodable(jobs) == \A i \in JobIds : jobs[i] = Absent \/ jobs[i].serializable

\* json.dump with DateTimeEncoder, for one job of jobs_to_save
JsonDump(r) ==
    IF r = Absent THEN Absent
    ELSE [r EXCEPT !.activities =
            [k \in DOMAIN @ |-> [@[k] EXCEPT !.date = IsoFormat(@)]]]

\* what jobs.json holds for a record after a successful save
Stored(r) == JsonDump(SerializableCopy(r))

\* _save_jobs_internal writing jobs.json itself, with no temporary file
SaveJobsInPlace(jobs, f0, io) ==
    LET f       == EnsureJobsFile(f0)
        to_save == JobsToSave(jobs)
    IN IF to_save = NoJobs /\ jobs # NoJobs
       THEN [ok |-> FALSE, why |-> "no_valid_jobs", file |-> f]
       ELSE IF ~Encodable(to_save)
       THEN [ok |-> FALSE, why |-> "not_serializable", file |-> TextFile]
       ELSE IF io = "invalid_temp"
       THEN [ok |-> FALSE, why |-> "invalid_temp", file |-> TextFile]
       ELSE [ok |-> TRUE, why |-> "",
             file |-> JobsFile([i \in JobIds |-> JsonDump(to_save[i])])]

\* _save_jobs_internal: what it returns, the branch by which it returns
\* false, and the file it leaves.  io is what the re-read of the temporary
\* file finds: "ok" or "invalid_temp"
SaveJobsInternal(jobs, f0, io) ==
    LET f       == EnsureJobsFile(f0)
        to_save == JobsToSave(jobs)
    IN IF to_save = NoJobs /\ jobs # NoJobs
       THEN [ok |-> FALSE, why |-> "no_valid_jobs", file |-> f]
       ELSE IF ~Encodable(to_save)
       THEN [ok |-> FALSE, why |-> "not_serializable", file |-> f]
       ELSE IF io = "invalid_temp"
       THEN [ok |-> FALSE, why |-> "invalid_temp", file |-> f]
       ELSE [ok |-> TRUE, why |-> "",
             file |-> JobsFile([i \in JobIds |-> JsonDump(to_save[i])])]

IoOutcomes == {"ok", "invalid_temp"}

\* with _lock: the lock can be taken
LockFreeAlways(l) == TRUE

LockFree(l) == l = 0

\* ------------------------------------------------------------- job store
\* save_job as the web application sees it: the record is stored, or
\* _save_jobs_internal fails and save_job returns False (job_storage.py
\* 291-312)
SaveJob(rec) == store' = IF diskOk THEN rec ELSE store

\* delete_job: drop the record and the report directory it names
DeleteJob ==
    IF store = NoJob
    THEN UNCHANGED <<store, artifact>>
    ELSE /\ store' = NoJob
         /\ artifact' = IF store.report_path # None THEN FALSE ELSE artifact

\* -------------------------------------------------------------- start_job
NewJob(n) ==
    [status          |-> "initializing",
     end_time        |-> None,
     current_user    |-> NoUser,
     processed_users |-> 0,
     total_users     |-> n,
     activities      |-> <<>>,
     errors          |-> <<>>,
     report_path     |-> None]

AppInit ==
    /\ job = NoJob
    /\ inReg = FALSE
    /\ store = NoJob
    /\ artifact = FALSE
    /\ users = <<>>
    /\ max_workers = 0
    /\ outcome = <<>>
    /\ pc = "unsubmitted"
    /\ processed_count = 0
    /\ wpc = [w \in Workers |-> "none"]
    /\ wres = [w \in Workers |-> <<>>]
    /\ cancelPending = FALSE
    /\ deletePending = FALSE
    /\ called = {}
    /\ reportCalls = 0
    /\ cancelAccepted = FALSE
    /\ cancelEarly = FALSE
    /\ lateReturn = {}

\* the job store before any call
StoreIdle ==
    /\ backups = {}
    /\ lock = 0
    /\ call = [c \in Callers |-> Idle]
    /\ ret = NoReturn
    /\ expect = [i \in JobIds |-> Unknown]
    /\ cleaned = NotCleaned

\* every save succeeds
DiskIdle == diskOk = TRUE

\* an exception: its class and, for a rate limit, what its headers hold
\* under X-RateLimit-Reset
Raised(cls, reset) == [cls |-> cls, reset |-> reset]
NoFault == Raised("none", "none")

\* the answer of one search_issues call: the issues it yields, then a fault
SearchAnswer(items, fault) == [items |-> items, fault |-> fault]

NoResult == [kind |-> "none", value |-> <<>>]

\* no call of track_user_activities
TrackIdle ==
    /\ github = [get_user |-> NoFault,
                 pulls |-> SearchAnswer(<<>>, NoFault),
                 reviews |-> SearchAnswer(<<>>, NoFault)]
    /\ tpc = "idle"
    /\ user_activities = <<>>
    /\ logged = {}
    /\ searched = {}
    /\ result = NoResult

\* no save has met a failing os.replace
NoFallback == [step |-> "idle", old |-> MissingFile, new |-> MissingFile]

FallbackIdle == bak = MissingFile /\ fallback = NoFallback

\* the threads of the job: 1 is run_activity_tracking, the others are its
\* process_user workers and the requests served meanwhile
Threads == 1 .. (MaxCallers + 1)

\* a thread in an operation that takes locks: the operation, how many of its
\* locks the thread holds, and whether it is on its way out
AtLock(op, held, leaving) == [op |-> op, held |-> held, leaving |-> leaving]
Away == AtLock("none", 0, FALSE)

\* no thread is at a lock
LockIdle == status_lock = 0 /\ at = [t \in Threads |-> Away]

EnvIdle == DiskIdle /\ TrackIdle /\ FallbackIdle /\ LockIdle

Init == AppInit /\ file = EmptyFile /\ StoreIdle /\ EnvIdle

\* start_job: the record is registered, saved, and the thread is started
StartJob ==
    /\ pc = "unsubmitted"
    /\ \E n \in 1 .. MaxUsers, mw \in 0 .. MaxWorkers :
           /\ users' = [i \in 1 .. n |-> i]
           /\ max_workers' = mw
           /\ outcome' = [i \in 1 .. n |-> "unknown"]
           /\ job' = NewJob(n)
           /\ SaveJob(NewJob(n))
    /\ inReg' = TRUE
    /\ pc' = "prelude"
    /\ UNCHANGED <<artifact, processed_count, wpc, wres, cancelPending,
                   deletePending, histVars>>
    /\ UNCHANGED <<storeVars, envVars>>

\* ------------------------------------------------------------ process_user
\* process_user, line 1163: a cancelled job makes the call return [] at once
SkipsUser(j) == j.status = "cancelled"

\* the Activity Source for one user: a list with the user's activity ("ok")
\* or an exception ("error"); the same answer each time it is asked
Answers(known) ==
    IF known = "unknown" THEN {"ok", "error"} ELSE {known}

\* what process_user returns for a user the Activity Source answers with oc
UserActivities(oc, u) == IF oc = "ok" THEN <<[user |-> u]>> ELSE <<>>

\* JobAfterUser with the error branch leaving processed_users as it was
JobAfterUserNoCount(j, cnt, oc, u) ==
    IF oc = "error"
    THEN [j EXCEPT !.errors = Append(@, Err("track_error", u))]
    ELSE [j EXCEPT !.processed_users = cnt + 1]

\* the update process_user makes under status_lock when its fetch is over;
\* cnt is the value processed_count then has
JobAfterUser(j, cnt, oc, u) ==
    IF oc = "error"
    THEN [j EXCEPT !.errors = Append(@, Err("track_error", u)),
                   !.processed_users = cnt + 1]
    ELSE [j EXCEPT !.processed_users = cnt + 1]

\* the pool runs the submitted calls in submission order, max_workers at once
PoolSlotFree(w) ==
    /\ \A v \in 1 .. (w - 1) : wpc[v] # "queued"
    /\ Cardinality({v \in 1 .. Len(users) : wpc[v] = "running"}) < max_workers

\* process_user up to the call of the Activity Source
WorkerStart(w) ==
    /\ wpc[w] = "queued"
    /\ IF w = 0 THEN pc = "test" ELSE PoolSlotFree(w)
    /\ IF SkipsUser(job)
       THEN /\ wpc' = [wpc EXCEPT ![w] = "returned"]
            /\ wres' = [wres EXCEPT ![w] = <<>>]
            /\ lateReturn' = IF cancelAccepted THEN lateReturn \cup {w}
                             ELSE lateReturn
            /\ UNCHANGED <<job, called>>
       ELSE /\ job' = [job EXCEPT !.current_user = UserOf(w)]
            /\ wpc' = [wpc EXCEPT ![w] = "running"]
            /\ called' = called \cup {w}
            /\ UNCHANGED <<wres, lateReturn>>
    /\ UNCHANGED <<inReg, store, artifact, argVars, pc, processed_count,
                   cancelPending, deletePending, reportCalls, cancelAccepted,
                   cancelEarly>>
    /\ UNCHANGED <<storeVars, envVars>>

\* process_user from the answer of the Activity Source to its return
WorkerFinish(w) ==
    /\ wpc[w] = "running"
    /\ LET u == UserOf(w)
       IN \E oc \in Answers(outcome[u]) :
          /\ outcome' = [outcome EXCEPT ![u] = oc]
          /\ job' = JobAfterUser(job, processed_count, oc, u)
          /\ processed_count' = processed_count + 1
          /\ SaveJob(job')
          /\ wres' = [wres EXCEPT ![w] = UserActivities(oc, u)]
    /\ wpc' = [wpc EXCEPT ![w] = "returned"]
    /\ lateReturn' = IF cancelAccepted THEN lateReturn \cup {w} ELSE lateReturn
    /\ UNCHANGED <<inReg, artifact, users, max_workers, pc, cancelPending,
                   deletePending, called, reportCalls, cancelAccepted,
                   cancelEarly>>
    /\ UNCHANGED <<storeVars, envVars>>

\* --------------------------------------------------- run_activity_tracking
\* the except clause of line 1526 and the writes it makes to job
JobAfterGuard(j) ==
    [j EXCEPT !.errors = Append(@, Err("job_error", NoUser)),
              !.status = "failed",
              !.current_user = NoUser]

\* an inner handler that gives the job up (lines 1329-1334, 1444-1451,
\* 1460-1467)
JobAfterAbort(j, kind) ==
    [j EXCEPT !.errors = Append(@, Err(kind, NoUser)),
              !.status = "failed",
              !.end_time = Now]

\* lines 1122-1129
JobAfterBegin(j) == [j EXCEPT !.status = "running", !.activities = <<>>]

\* lines 1337-1340
WorkerCount(mw, cpu_count) ==
    IF mw <= 0 THEN Min(WorkerCeiling, cpu_count * 2) ELSE mw

\* lines 1358-1368: the test call's activities are kept, the count is reset
JobAfterTest(j, acts) ==
    [j EXCEPT !.activities = @ \o acts, !.processed_users = 0]

\* JobAfterResult with the list assigned instead of extended
JobAfterResultReplace(j, acts) == [j EXCEPT !.activities = acts]

\* lines 1392-1395
JobAfterResult(j, acts) == [j EXCEPT !.activities = @ \o acts]

\* JobAfterFinalize with current_user left as the last worker set it
JobAfterFinalizeKeepUser(j) ==
    [j EXCEPT !.processed_users = j.total_users,
              !.status = "completed"]

\* lines 1506-1511
JobAfterFinalize(j) ==
    [j EXCEPT !.processed_users = j.total_users,
              !.status = "completed",
              !.current_user = NoUser]

\* lines 1084-1132: the logging prelude, the registry check, status running
BeginTracking ==
    /\ pc = "prelude"
    /\ IF inReg
       THEN /\ job' = JobAfterBegin(job)
            /\ processed_count' = 0
            /\ pc' = "imports"
       ELSE \* return at line 1114; the finally clause reads the unbound job
            /\ pc' = "crashed"
            /\ UNCHANGED <<job, processed_count>>
    /\ UNCHANGED <<inReg, store, artifact, argVars, wpc, wres, cancelPending,
                   deletePending, histVars>>
    /\ UNCHANGED <<storeVars, envVars>>

\* a statement of lines 1086-1109 raises (os.getcwd() of a removed directory):
\* the except clause of line 1526 and the finally clause both read job, which
\* is not bound yet, and the thread ends by UnboundLocalError
PreludeFault ==
    /\ pc = "prelude"
    /\ pc' = "crashed"
    /\ UNCHANGED <<jobVars, argVars, processed_count, wpc, wres, cancelPending,
                   deletePending, histVars>>
    /\ UNCHANGED <<storeVars, envVars>>

\* lines 1326-1334
ImportFailure ==
    /\ pc = "imports"
    /\ job' = JobAfterAbort(job, "import_error")
    /\ SaveJob(job')
    /\ pc' = "finally"
    /\ UNCHANGED <<inReg, artifact, argVars, processed_count, wpc, wres,
                   cancelPending, deletePending, histVars>>
    /\ UNCHANGED <<storeVars, envVars>>

\* lines 1337-1355: the worker count, then process_user(users[0]) is called
TestBegin ==
    /\ pc = "imports"
    /\ \E cpu_count \in 1 .. MaxCpu :
         max_workers' = WorkerCount(max_workers, cpu_count)
    /\ processed_count' = 0
    /\ wpc' = [wpc EXCEPT ![0] = "queued"]
    /\ pc' = "test"
    /\ UNCHANGED <<jobVars, users, outcome, wres, cancelPending, deletePending,
                   histVars>>
    /\ UNCHANGED <<storeVars, envVars>>

\* lines 1357-1371
TestEnd ==
    /\ pc = "test"
    /\ wpc[0] = "returned"
    /\ job' = JobAfterTest(job, wres[0])
    /\ processed_count' = 0
    /\ wpc' = [wpc EXCEPT ![0] = "merged"]
    /\ lateReturn' = lateReturn \ {0}
    /\ pc' = "submit"
    /\ UNCHANGED <<inReg, store, artifact, argVars, wres, cancelPending,
                   deletePending, called, reportCalls, cancelAccepted,
                   cancelEarly>>
    /\ UNCHANGED <<storeVars, envVars>>

\* lines 1376-1386: every user is submitted to the pool
SubmitAll ==
    /\ pc = "submit"
    /\ wpc' = [w \in Workers |->
                 IF w \in 1 .. Len(users) THEN "queued" ELSE wpc[w]]
    /\ pc' = "collect"
    /\ UNCHANGED <<jobVars, argVars, processed_count, wres, cancelPending,
                   deletePending, histVars>>
    /\ UNCHANGED <<storeVars, envVars>>

\* executor.submit raises after k users were submitted (no new thread):
\* lines 1403-1409, then shutdown(wait=True) waits for the k calls
SubmitFault(k) ==
    /\ pc = "submit"
    /\ k \in 0 .. (Len(users) - 1)
    /\ wpc' = [w \in Workers |-> IF w \in 1 .. k THEN "queued" ELSE wpc[w]]
    /\ job' = [job EXCEPT !.errors = Append(@, Err("parallel_error", NoUser))]
    /\ SaveJob(job')
    /\ pc' = "shutdown"
    /\ UNCHANGED <<inReg, artifact, argVars, processed_count, wres,
                   cancelPending, deletePending, histVars>>
    /\ UNCHANGED <<storeVars, envVars>>

\* lines 1410-1415 after a failed submit
ShutdownDone ==
    /\ pc = "shutdown"
    /\ \A w \in 1 .. Len(users) : wpc[w] \in {"none", "returned"}
    /\ pc' = "post"
    /\ UNCHANGED <<jobVars, argVars, processed_count, wpc, wres, cancelPending,
                   deletePending, histVars>>
    /\ UNCHANGED <<storeVars, envVars>>

\* lines 1389-1395: one completed future is taken from as_completed
MergeResult(w) ==
    /\ pc = "collect"
    /\ w \in 1 .. Len(users)
    /\ wpc[w] = "returned"
    /\ job' = JobAfterResult(job, wres[w])
    /\ wpc' = [wpc EXCEPT ![w] = "merged"]
    /\ lateReturn' = lateReturn \ {w}
    /\ UNCHANGED <<inReg, store, artifact, argVars, pc, processed_count, wres,
                   cancelPending, deletePending, called, reportCalls,
                   cancelAccepted, cancelEarly>>
    /\ UNCHANGED <<storeVars, envVars>>

\* as_completed is exhausted; lines 1410-1415
CollectDone ==
    /\ pc = "collect"
    /\ \A w \in 1 .. Len(users) : wpc[w] = "merged"
    /\ pc' = "post"
    /\ UNCHANGED <<jobVars, argVars, processed_count, wpc, wres, cancelPending,
                   deletePending, histVars>>
    /\ UNCHANGED <<storeVars, envVars>>

\* lines 1418-1427 and 1502-1504
PostCheck ==
    /\ pc = "post"
    /\ IF ~inReg
       THEN pc' = "tail" /\ UNCHANGED job
       ELSE IF job.status = "cancelled"
       THEN pc' = "finally" /\ UNCHANGED job
       ELSE IF job.activities # <<>>
       THEN pc' = "gen" /\ UNCHANGED job
       ELSE /\ job' = [job EXCEPT
                         !.errors = Append(@, Err("no_activities", NoUser))]
            /\ pc' = "finalize"
    /\ UNCHANGED <<inReg, store, artifact, argVars, processed_count, wpc, wres,
                   cancelPending, deletePending, histVars>>
    /\ UNCHANGED <<storeVars, envVars>>

\* lines 1430-1437
GenStatus ==
    /\ pc = "gen"
    /\ job' = [job EXCEPT !.status = "generating_report"]
    /\ SaveJob(job')
    /\ pc' = "render"
    /\ UNCHANGED <<inReg, artifact, argVars, processed_count, wpc, wres,
                   cancelPending, deletePending, histVars>>
    /\ UNCHANGED <<storeVars, envVars>>

\* JobAfterReport with a raising renderer handled like one returning null
JobAfterReportLenient(j, r) ==
    CASE r = "import_error" -> JobAfterAbort(j, "report_import_error")
      [] r = "raise"        -> [j EXCEPT
                                  !.errors = Append(@, Err("report_error", NoUser))]
      [] r = "path"         -> [j EXCEPT !.report_path = "report"]
      [] r = "null"         -> [j EXCEPT
                                  !.errors = Append(@, Err("report_empty", NoUser))]

\* lines 1439-1501; r is what the import and the Report Renderer do
JobAfterReport(j, r) ==
    CASE r = "import_error" -> JobAfterAbort(j, "report_import_error")
      [] r = "raise"        -> JobAfterAbort(j, "report_error")
      [] r = "path"         -> [j EXCEPT !.report_path = "report"]
      [] r = "null"         -> [j EXCEPT
                                  !.errors = Append(@, Err("report_empty", NoUser))]

GenerateReport(r) ==
    /\ pc = "render"
    /\ r \in {"import_error", "raise", "path", "null"}
    /\ job' = JobAfterReport(job, r)
    /\ reportCalls' = IF r = "import_error" THEN reportCalls
                      ELSE reportCalls + 1
    /\ artifact' = IF r = "path" THEN TRUE ELSE artifact
    /\ IF r \in {"import_error", "raise"}
       THEN SaveJob(job') /\ pc' = "finally"
       ELSE UNCHANGED store /\ pc' = "finalize"
    /\ UNCHANGED <<inReg, argVars, processed_count, wpc, wres, cancelPending,
                   deletePending, called, cancelAccepted, cancelEarly,
                   lateReturn>>
    /\ UNCHANGED <<storeVars, envVars>>

\* lines 1506-1511
Finalize ==
    /\ pc = "finalize"
    /\ job' = JobAfterFinalize(job)
    /\ pc' = "tail"
    /\ UNCHANGED <<inReg, store, artifact, argVars, processed_count, wpc, wres,
                   cancelPending, deletePending, histVars>>
    /\ UNCHANGED <<storeVars, envVars>>

\* JobAfterSave with a failed save handled by the except clause of line 1526
JobAfterSaveChecked(j, saved) == IF saved THEN j ELSE JobAfterGuard(j)

\* line 1525: what save_job returns is not looked at
JobAfterSave(j, saved) == j

\* lines 1513-1525
LogAndSave ==
    /\ pc = "tail"
    /\ job' = JobAfterSave(job, diskOk)
    /\ SaveJob(job')
    /\ pc' = "finally"
    /\ UNCHANGED <<inReg, artifact, argVars, processed_count, wpc, wres,
                   cancelPending, deletePending, histVars>>
    /\ UNCHANGED <<storeVars, envVars>>

\* a statement outside the inner try blocks raises with job bound:
\* lines 1526-1534
BodyFault ==
    /\ pc \in {"submit", "finalize", "tail"}
    /\ job' = JobAfterGuard(job)
    /\ SaveJob(job')
    /\ pc' = "finally"
    /\ UNCHANGED <<inReg, artifact, argVars, processed_count, wpc, wres,
                   cancelPending, deletePending, histVars>>
    /\ UNCHANGED <<storeVars, envVars>>

\* lines 1557-1561
FinallyClause ==
    /\ pc = "finally"
    /\ job' = [job EXCEPT !.end_time = Now]
    /\ SaveJob(job')
    /\ pc' = "done"
    /\ UNCHANGED <<inReg, artifact, argVars, processed_count, wpc, wres,
                   cancelPending, deletePending, histVars>>
    /\ UNCHANGED <<storeVars, envVars>>

\* --------------------------------------------------------------- cancel_job
NoWorkerCompleted == \A w \in Workers : wpc[w] \in {"none", "queued", "running"}

\* lines 581-597
CancelSet ==
    /\ inReg
    /\ ~cancelPending
    /\ job.status \in NonTerminal
    /\ job' = [job EXCEPT !.status = "cancelled", !.end_time = Now]
    /\ cancelPending' = TRUE
    /\ cancelAccepted' = TRUE
    /\ cancelEarly' = (cancelEarly \/ NoWorkerCompleted)
    /\ UNCHANGED <<inReg, store, artifact, argVars, pc, processed_count, wpc,
                   wres, deletePending, called, reportCalls, lateReturn>>
    /\ UNCHANGED <<storeVars, envVars>>

\* line 600
CancelSave ==
    /\ cancelPending
    /\ SaveJob(job)
    /\ cancelPending' = FALSE
    /\ UNCHANGED <<job, inReg, artifact, argVars, pc, processed_count, wpc,
                   wres, deletePending, histVars>>
    /\ UNCHANGED <<storeVars, envVars>>

\* --------------------------------------------------------- delete_job_route
\* lines 612-631
DeletePop ==
    /\ inReg
    /\ job.status \notin NonTerminal
    /\ inReg' = FALSE
    /\ deletePending' = TRUE
    /\ UNCHANGED <<job, store, artifact, argVars, pc, processed_count, wpc,
                   wres, cancelPending, histVars>>
    /\ UNCHANGED <<storeVars, envVars>>

\* line 632
DeleteStore ==
    /\ deletePending
    /\ DeleteJob
    /\ deletePending' = FALSE
    /\ UNCHANGED <<job, inReg, argVars, pc, processed_count, wpc, wres,
                   cancelPending, histVars>>
    /\ UNCHANGED <<storeVars, envVars>>

\* -------------------------------------------------------------------- Next
Next ==
    \/ StartJob
    \/ BeginTracking
    \/ PreludeFault
    \/ ImportFailure
    \/ TestBegin
    \/ TestEnd
    \/ SubmitAll
    \/ \E k \in 0 .. MaxUsers : SubmitFault(k)
    \/ ShutdownDone
    \/ \E w \in Workers : WorkerStart(w)
    \/ \E w \in Workers : WorkerFinish(w)
    \/ \E w \in Workers : MergeResult(w)
    \/ CollectDone
    \/ PostCheck
    \/ GenStatus
    \/ \E r \in {"import_error", "raise", "path", "null"} : GenerateReport(r)
    \/ Finalize
    \/ LogAndSave
    \/ BodyFault
    \/ FinallyClause
    \/ CancelSet
    \/ CancelSave
    \/ DeletePop
    \/ DeleteStore

Spec == Init /\ [][Next]_vars

\* the disk starts or stops taking writes (full, read-only, replaced file):
\* what makes _save_jobs_internal return False at job_storage.py 241-244 and
\* 265-272
DiskChange ==
    /\ pc \notin {"unsubmitted", "done", "crashed"}
    /\ diskOk' = ~diskOk
    /\ UNCHANGED <<appVars, storeVars, trackVars, fallbackVars, lockVars>>

\* a run of the thread that is neither cancelled nor deleted and meets no
\* fault of its own, on a disk that fails at any time
DiskNext ==
    \/ StartJob
    \/ BeginTracking
    \/ TestBegin
    \/ TestEnd
    \/ SubmitAll
    \/ \E w \in Workers : WorkerStart(w)
    \/ \E w \in Workers : WorkerFinish(w)
    \/ \E w \in Workers : MergeResult(w)
    \/ CollectDone
    \/ PostCheck
    \/ GenStatus
    \/ \E r \in {"import_error", "raise", "path", "null"} : GenerateReport(r)
    \/ Finalize
    \/ LogAndSave
    \/ FinallyClause
    \/ DiskChange

DiskSpec == Init /\ [][DiskNext]_vars

TypeOK ==
    /\ pc \in {"unsubmitted", "prelude", "imports", "test", "submit",
               "collect", "shutdown", "post", "gen", "render", "finalize",
               "tail", "finally", "done", "crashed"}
    /\ job # NoJob => job.status \in NonTerminal \cup Terminal

\* ------------------------------------------------------------- properties
Submitted == pc # "unsubmitted"

\* the thread has ended: by return ("done") or by an exception ("crashed")
Exited == pc \in {"done", "crashed"}

ErrorKinds(j) == {j.errors[i][1] : i \in 1 .. Len(j.errors)}

\* the thread met no fault of its own (lines 1326, 1403, 1526)
NoOrchestratorFault(j) ==
    ErrorKinds(j) \cap {"import_error", "parallel_error", "job_error"} = {}

\* the report step gave the job up (lines 1444, 1460)
RendererAborted(j) ==
    ErrorKinds(j) \cap {"report_import_error", "report_error"} # {}

\* no cancellation and no fault of the thread
CleanRun == ~cancelAccepted /\ NoOrchestratorFault(job)

\* the entries of activities that belong to user u
EntriesOf(j, u) == {i \in 1 .. Len(j.activities) : j.activities[i].user = u}

UsersWith(oc) == {u \in 1 .. Len(users) : outcome[u] = oc}

Finished(w) == wpc[w] \in {"returned", "merged"}

\* C1: when every user's fetch succeeds with one activity and max_workers is
\* at most the number of users, the thread ends with exactly one entry of
\* activities per user: none lost, none duplicated.
C1_OneActivityPerUser ==
    (/\ pc = "done"
     /\ CleanRun
     /\ max_workers <= Len(users)
     /\ UsersWith("ok") = 1 .. Len(users))
    => /\ Len(job.activities) = Len(users)
       /\ \A u \in 1 .. Len(users) : Cardinality(EntriesOf(job, u)) = 1

\* C2: processed_users never exceeds total_users and never decreases from one
\* state to the next, in the registry's record and in the stored record.
C2_ProcessedMonotonic ==
    /\ [](Submitted => job.processed_users <= job.total_users)
    /\ [](store # NoJob => store.processed_users <= store.total_users)
    /\ [][Submitted => job.processed_users' >= job.processed_users]_vars
    /\ [][(store # NoJob /\ store' # NoJob)
            => store.processed_users' >= store.processed_users]_vars

StatusRank(st) ==
    CASE st = "initializing"      -> 0
      [] st = "running"           -> 1
      [] st = "generating_report" -> 2
      [] st = "completed"         -> 3
      [] OTHER                    -> 4

ForwardStep(a, b) ==
    /\ a \in NonTerminal
    /\ b \in NonTerminal \cup {"completed"}
    /\ StatusRank(a) < StatusRank(b)

StopStep(a, b) == a \in NonTerminal /\ b \in {"cancelled", "failed"}

\* C3: every change of status is a forward step of the chain initializing,
\* running, generating_report, completed, or leads from a non-terminal status
\* to cancelled or failed; a terminal status never changes.
C3_StatusOnlyForward ==
    [][Submitted =>
         \/ job.status' = job.status
         \/ ForwardStep(job.status, job.status')
         \/ StopStep(job.status, job.status')]_vars

\* the pool calls that have gone through the Activity Source and returned
CountedCalls == {w \in 1 .. Len(users) : w \in called /\ Finished(w)}

\* C4: a user whose fetch raises does not abort the job.  Its error is in
\* errors and its call returns nothing; processed_users counts it like every
\* other finished call; and a run that is not cancelled, meets no fault of the
\* thread and whose report step does not give the job up ends completed, with
\* every user fetched, processed_users = total_users, and entries in activities
\* for the users whose fetch succeeded and for no other user.
C4_UserErrorIsolated ==
    /\ \A w \in Workers :
         (Submitted /\ Finished(w) /\ w \in called
            /\ outcome[UserOf(w)] = "error")
         => /\ Err("track_error", UserOf(w)) \in Range(job.errors)
            /\ wres[w] = <<>>
    /\ pc \in {"collect", "shutdown"}
         => job.processed_users = Cardinality(CountedCalls)
    /\ (pc = "done" /\ CleanRun /\ ~RendererAborted(job))
         => /\ job.status = "completed"
            /\ job.processed_users = job.total_users
            /\ \A u \in 1 .. Len(users) : u \in called
            /\ {job.activities[i].user : i \in 1 .. Len(job.activities)}
                 = UsersWith("ok")
            /\ (UsersWith("error") # {} => job.errors # <<>>)

\* C4 witness: users 1, 2, 3 with user 2 failing; the job is completed
C4_Witness ==
    /\ pc = "done"
    /\ CleanRun
    /\ Len(users) = 3
    /\ outcome = <<"ok", "error", "ok">>
    /\ job.status = "completed"
    /\ job.processed_users = 3
    /\ Err("track_error", 2) \in Range(job.errors)

\* C5: with exactly one failing user among N > 1 and every other user
\* succeeding, the job is completed with exactly N-1 activities, one per
\* successful user, an error recorded and processed_users = total_users.
C5_OneFailureOfN ==
    (/\ pc = "done"
     /\ CleanRun
     /\ ~RendererAborted(job)
     /\ Len(users) > 1
     /\ Cardinality(UsersWith("error")) = 1
     /\ Cardinality(UsersWith("ok")) = Len(users) - 1)
    => /\ job.status = "completed"
       /\ Len(job.activities) = Len(users) - 1
       /\ \A u \in UsersWith("ok") : Cardinality(EntriesOf(job, u)) = 1
       /\ job.errors # <<>>
       /\ job.processed_users = job.total_users

\* C6: when the thread has ended, whatever fault it met, the job's record is
\* in a terminal status with end_time set, and the store holds it.
C6_EndsTerminal ==
    (Exited /\ inReg /\ ~cancelPending)
    => /\ job.status \in Terminal
       /\ job.end_time # None
       /\ store = job

\* C7: a job cancelled before any worker has completed never has its report
\* generated and keeps report_path null (stated for the runs in which the
\* thread meets no fault of its own).
C7_EarlyCancelNoReport ==
    (cancelEarly /\ NoOrchestratorFault(job))
    => (reportCalls = 0 /\ job.report_path = None)

\* C8: a worker that enters process_user after a cancellation was accepted
\* does not call the Activity Source.
C8_NoFetchAfterCancel ==
    [][\A w \in Workers :
         (cancelAccepted /\ wpc[w] = "queued" /\ wpc'[w] # "queued")
         => w \notin called']_vars

\* C9: what a worker returns after the cancellation is discarded: taking its
\* result leaves activities as it was.
C9_LateResultsDiscarded ==
    [][\A w \in lateReturn :
         (wpc[w] = "returned" /\ wpc'[w] = "merged")
         => job.activities' = job.activities]_vars

C11_CompletedAtExit ==
    (pc = "done" /\ inReg /\ ~cancelAccepted /\ job.status # "failed")
    => /\ job.status = "completed"
       /\ job.processed_users = job.total_users
       /\ job.current_user = NoUser
       /\ job.end_time # None
       /\ store = job

\* C11 witness: a completed run in which a user failed
C11_Witness ==
    /\ pc = "done"
    /\ inReg
    /\ ~cancelAccepted
    /\ UsersWith("error") # {}
    /\ job.status = "completed"
    /\ job.processed_users = job.total_users
    /\ job.current_user = NoUser
    /\ store = job

\* =============================================== job_storage: operations
\* the records threads give to save_job: a job finished long ago, a running
\* job started long ago, a job finished today with one activity, a job with
\* a value json cannot encode, a mapping that has none of a job's fields
FinishedJob ==
    JobValue("dict", "completed", DateTime(1), DateTime(1), <<>>, <<>>, TRUE)
RunningJob ==
    JobValue("dict", "running", DateTime(1), Null, <<>>, <<>>, TRUE)
JobWithActivity ==
    JobValue("dict", "completed", DateTime(Today), DateTime(Today),
             <<[mapping |-> TRUE, date |-> DateTime(Today)]>>, <<>>, TRUE)
UnserializableJob ==
    JobValue("dict", "completed", DateTime(Today), DateTime(Today), <<>>,
             <<>>, FALSE)
PartialJob == JobValue("partial", "", Null, Null, <<>>, <<>>, TRUE)
ScalarValue == JobValue("scalar", "", Null, Null, <<>>, <<>>, TRUE)

JobRecords ==
    {FinishedJob, RunningJob, JobWithActivity, UnserializableJob, PartialJob}

\* the records given to save_job for job id i: each of them for the first
\* id, two of them for the second, one for the others
RecordsFor(i) ==
    IF i = 1 THEN JobRecords
    ELSE IF i = 2 THEN {FinishedJob, JobWithActivity}
    ELSE {FinishedJob}

\* the values given to save_jobs for job id i: any of them for the first two
\* ids, a finished job or none for the others
ValuesFor(i) ==
    IF i <= 2 THEN JobRecords \cup {ScalarValue, Absent}
    ELSE {FinishedJob, Absent}

\* the collections threads give to save_jobs
Collections == {jobs \in [JobIds -> JobRecords \cup {ScalarValue, Absent}] :
                  \A i \in JobIds : jobs[i] \in ValuesFor(i)}

\* what jobs.json holds when save_jobs and load_jobs are first called
InitialFiles ==
    {MissingFile, EmptyFile, TextFile, ArrayFile}
    \cup {JobsFile([NoJobs EXCEPT ![1] = r, ![MaxJobs] = Stored(FinishedJob)]) :
            r \in {ScalarValue, PartialJob, Stored(JobWithActivity)}}

\* the calls of clean_old_jobs are forgotten once the file is written again
CleanedAfter(f) == IF f = file THEN cleaned ELSE NotCleaned

\* save_job, lines 302-304
SaveJobEnter(c, id, rec) ==
    /\ call[c] = Idle
    /\ LockFree(lock)
    /\ lock' = c
    /\ file' = LoadJobsInternal(file).file
    /\ backups' = backups \cup LoadJobsInternal(file).backup
    /\ call' = [call EXCEPT
                  ![c] = InCall("save_job", id, rec, 0,
                                LoadJobsInternal(file).jobs)]
    /\ cleaned' = CleanedAfter(LoadJobsInternal(file).file)
    /\ ret' = NoReturn
    /\ UNCHANGED <<expect, appVars, envVars>>

\* save_job, lines 307-312
SaveJobLeave(c) ==
    /\ call[c].op = "save_job"
    /\ \E io \in IoOutcomes :
         LET jobs == [call[c].jobs EXCEPT ![call[c].id] = call[c].rec]
             res  == SaveJobsInternal(jobs, file, io)
         IN /\ file' = res.file
            /\ ret' = Returned("save_job", res.ok, Absent, NoJobs, 0)
            /\ expect' = IF res.ok
                         THEN [expect EXCEPT ![call[c].id] = call[c].rec]
                         ELSE expect
            /\ cleaned' = CleanedAfter(res.file)
    /\ lock' = 0
    /\ call' = [call EXCEPT ![c] = Idle]
    /\ UNCHANGED <<backups, appVars, envVars>>

\* delete_job, lines 333-335
DeleteJobEnter(c, id) ==
    /\ call[c] = Idle
    /\ LockFree(lock)
    /\ lock' = c
    /\ file' = LoadJobsInternal(file).file
    /\ backups' = backups \cup LoadJobsInternal(file).backup
    /\ call' = [call EXCEPT
                  ![c] = InCall("delete_job", id, Absent, 0,
                                LoadJobsInternal(file).jobs)]
    /\ cleaned' = CleanedAfter(LoadJobsInternal(file).file)
    /\ ret' = NoReturn
    /\ UNCHANGED <<expect, appVars, envVars>>

\* delete_job, lines 338-364 (the report directory is DeleteJob's matter)
DeleteJobLeave(c) ==
    /\ call[c].op = "delete_job"
    /\ IF call[c].jobs[call[c].id] = Absent
       THEN /\ ret' = Returned("delete_job", FALSE, Absent, NoJobs, 0)
            /\ UNCHANGED <<file, expect, cleaned>>
       ELSE \E io \in IoOutcomes :
              LET jobs == [call[c].jobs EXCEPT ![call[c].id] = Absent]
                  res  == SaveJobsInternal(jobs, file, io)
              IN /\ file' = res.file
                 /\ ret' = Returned("delete_job", res.ok, Absent, NoJobs, 0)
                 /\ expect' = IF res.ok
                              THEN [expect EXCEPT ![call[c].id] = Absent]
                              ELSE expect
                 /\ cleaned' = CleanedAfter(res.file)
    /\ lock' = 0
    /\ call' = [call EXCEPT ![c] = Idle]
    /\ UNCHANGED <<backups, appVars, envVars>>

\* get_job
GetJob(id) ==
    /\ LockFree(lock)
    /\ LET loaded == LoadJobsInternal(file)
       IN /\ file' = loaded.file
          /\ backups' = backups \cup loaded.backup
          /\ ret' = Returned("get_job", loaded.jobs[id] # Absent,
                             loaded.jobs[id], NoJobs, 0)
          /\ cleaned' = CleanedAfter(loaded.file)
    /\ UNCHANGED <<lock, call, expect, appVars, envVars>>

\* load_jobs
LoadJobs ==
    /\ LockFree(lock)
    /\ LET loaded == LoadJobsInternal(file)
       IN /\ file' = loaded.file
          /\ backups' = backups \cup loaded.backup
          /\ ret' = Returned("load_jobs", TRUE, Absent, loaded.jobs, 0)
          /\ cleaned' = CleanedAfter(loaded.file)
    /\ UNCHANGED <<lock, call, expect, appVars, envVars>>

\* what the store is to hold for a collection given to save_jobs
Kept(jobs) ==
    [i \in JobIds |->
       IF jobs[i] # Absent /\ IsMapping(jobs[i]) THEN jobs[i] ELSE Absent]

\* save_jobs
SaveJobs(jobs, io) ==
    /\ LockFree(lock)
    /\ LET res == SaveJobsInternal(jobs, file, io)
       IN /\ file' = res.file
          /\ ret' = [Returned("save_jobs", res.ok, Absent, NoJobs, 0)
                      EXCEPT !.why = res.why]
          /\ expect' = IF res.ok THEN Kept(jobs) ELSE expect
          /\ cleaned' = CleanedAfter(res.file)
    /\ UNCHANGED <<backups, lock, call, appVars, envVars>>

\* clean_old_jobs, lines 421-436: the job is old enough to remove
Expired(r, age) ==
    LET job_time == IF r.end_time # Null THEN r.end_time ELSE r.start_time
    IN job_time.form = "datetime" /\ job_time.t < Today - age

\* clean_old_jobs, lines 414-438: jobs_to_remove
JobsToRemove(jobs, age) ==
    {i \in JobIds :
       jobs[i] # Absent /\ (~IsMapping(jobs[i]) \/ Expired(jobs[i], age))}

\* CleanResult without the save of line 460
CleanResultNoSave(jobs, f, age, io) ==
    [count   |-> Cardinality(JobsToRemove(jobs, age)),
     removed |-> JobsToRemove(jobs, age),
     saved   |-> TRUE,
     file    |-> f]

\* clean_old_jobs, lines 403-467: removed_count, the ids removed, whether the
\* collection on file is the one without them, and the file it leaves
CleanResult(jobs, f, age, io) ==
    LET removed == JobsToRemove(jobs, age)
        left    == [i \in JobIds |-> IF i \in removed THEN Absent ELSE jobs[i]]
        res     == SaveJobsInternal(left, f, io)
    IN [count   |-> Cardinality(removed),
        removed |-> removed,
        saved   |-> removed = {} \/ res.ok,
        file    |-> IF removed = {} THEN f ELSE res.file]

\* the finally clause of clean_old_jobs releasing whatever the call did
LockAfterCleanAlways(lock_acquired, l) == 0

\* clean_old_jobs, lines 472-480
LockAfterClean(lock_acquired, l) == IF lock_acquired THEN 0 ELSE l

\* clean_old_jobs, lines 383-398: the lock is acquired within the timeout
CleanEnter(c, age) ==
    /\ call[c] = Idle
    /\ LockFree(lock)
    /\ lock' = c
    /\ file' = LoadJobsInternal(file).file
    /\ backups' = backups \cup LoadJobsInternal(file).backup
    /\ call' = [call EXCEPT
                  ![c] = InCall("clean_old_jobs", 0, Absent, age,
                                LoadJobsInternal(file).jobs)]
    /\ cleaned' = CleanedAfter(LoadJobsInternal(file).file)
    /\ ret' = NoReturn
    /\ UNCHANGED <<expect, appVars, envVars>>

\* clean_old_jobs, lines 387-390: the wait for the lock expires
CleanTimeout(c) ==
    /\ call[c] = Idle
    /\ ~LockFree(lock)
    /\ ret' = Returned("clean_old_jobs", FALSE, Absent, NoJobs, 0)
    /\ lock' = LockAfterClean(FALSE, lock)
    /\ UNCHANGED <<file, backups, call, expect, cleaned, appVars, envVars>>

\* clean_old_jobs, lines 403-480
CleanLeave(c) ==
    /\ call[c].op = "clean_old_jobs"
    /\ \E io \in IoOutcomes :
         LET res == CleanResult(call[c].jobs, file, call[c].age, io)
         IN /\ file' = res.file
            /\ ret' = Returned("clean_old_jobs", TRUE, Absent, NoJobs,
                               res.count)
            /\ expect' = IF res.file # file
                         THEN [i \in JobIds |->
                                 IF i \in res.removed THEN Absent
                                 ELSE expect[i]]
                         ELSE expect
            /\ cleaned' = IF ~res.saved THEN NotCleaned
                          ELSE IF cleaned.age = call[c].age THEN cleaned
                          ELSE [age |-> call[c].age, removed |-> res.count]
    /\ lock' = LockAfterClean(TRUE, lock)
    /\ call' = [call EXCEPT ![c] = Idle]
    /\ UNCHANGED <<backups, appVars, envVars>>

\* clean_old_jobs: one of its handlers returns 0 with the lock held (lines
\* 399-401, 439-441, 452-454, 469-471), then the finally clause
CleanFault(c) ==
    /\ call[c].op = "clean_old_jobs"
    /\ ret' = Returned("clean_old_jobs", FALSE, Absent, NoJobs, 0)
    /\ lock' = LockAfterClean(TRUE, lock)
    /\ call' = [call EXCEPT ![c] = Idle]
    /\ UNCHANGED <<file, backups, expect, cleaned, appVars, envVars>>

StoreNext ==
    \/ \E c \in Callers, i \in JobIds :
         \E r \in RecordsFor(i) : SaveJobEnter(c, i, r)
    \/ \E c \in Callers : SaveJobLeave(c)
    \/ \E c \in Callers, i \in JobIds : DeleteJobEnter(c, i)
    \/ \E c \in Callers : DeleteJobLeave(c)
    \/ \E i \in JobIds : GetJob(i)
    \/ \E c \in Callers, age \in 1 .. MaxAge : CleanEnter(c, age)
    \/ \E c \in Callers : CleanTimeout(c)
    \/ \E c \in Callers : CleanLeave(c)
    \/ \E c \in Callers : CleanFault(c)

\* get_job, save_job, delete_job and clean_old_jobs called by threads
StoreInit ==
    AppInit /\ file \in {MissingFile, EmptyFile} /\ StoreIdle /\ EnvIdle

StoreSpec == StoreInit /\ [][StoreNext]_vars

FileNext ==
    \/ LoadJobs
    \/ \E jobs \in Collections, io \in IoOutcomes : SaveJobs(jobs, io)

\* load_jobs and save_jobs called on whatever jobs.json holds
FileInit == AppInit /\ file \in InitialFiles /\ StoreIdle /\ EnvIdle

FileSpec == FileInit /\ [][FileNext]_vars

\* ---------------------------------------------- properties of job_storage
NoCallInProgress == \A c \in Callers : call[c] = Idle

\* C12: save_job, delete_job and get_job run one at a time under _lock, each
\* as a whole read-modify-write of the collection, so no update is lost:
\* whenever no call is in progress, jobs.json holds for every job id the
\* record of the last successful save_job of that id, and holds none for an
\* id whose last successful operation was a delete_job; a save or a delete
\* of one id leaves the records of the other ids in the file.
C12_NoLostUpdate ==
    /\ \A c, d \in Callers : (call[c] # Idle /\ call[d] # Idle) => c = d
    /\ \A c \in Callers : call[c] # Idle => lock = c
    /\ NoCallInProgress
         => \A i \in JobIds :
              expect[i] # Unknown
              => /\ file.form = "object"
                 /\ file.jobs[i] = IF expect[i] = Absent THEN Absent
                                   ELSE Stored(expect[i])

\* C12 witness: two ids saved and a third one saved and deleted again; the
\* delete_job has just returned true and the file holds the two records
C12_Witness ==
    /\ NoCallInProgress
    /\ ret.op = "delete_job"
    /\ ret.ok
    /\ expect[1] \in JobRecords
    /\ expect[2] \in JobRecords
    /\ expect[MaxJobs] = Absent
    /\ file.jobs[1] = Stored(expect[1])
    /\ file.jobs[2] = Stored(expect[2])
    /\ file.jobs[MaxJobs] = Absent

\* C13: save_jobs given a collection json cannot encode, or whose temporary
\* copy fails the re-read, returns false and leaves an existing jobs.json
\* with the content it had.
C13_FailedSaveLeavesFile ==
    [][(/\ ret'.op = "save_jobs"
        /\ ret'.why \in {"not_serializable", "invalid_temp"}
        /\ file.form # "missing")
       => (~ret'.ok /\ file' = file)]_vars

\* C13 witness: save_jobs could not encode the collection it was given and
\* has returned false; the file holds a job
C13_Witness ==
    /\ ret.op = "save_jobs"
    /\ ret.why = "not_serializable"
    /\ ~ret.ok
    /\ file.form = "object"
    /\ \E i \in JobIds : file.jobs[i] = Stored(FinishedJob)

\* C14: load_jobs on text that is no JSON, or on a JSON value that is no
\* object, returns the empty collection, resets jobs.json to the empty
\* collection and leaves a backup holding the bad content.
C14_BadContentBackedUp ==
    [][(LoadJobs /\ file.form \in {"text", "array"})
         => /\ ret'.jobs = NoJobs
            /\ file' = EmptyFile
            /\ file \in backups']_vars

\* C15: get_job after save_job of the same id, with no write of that id in
\* between, returns a record equal to the one saved, in every field.
C15_SaveGetRoundTrip ==
    [][\A i \in JobIds :
         (GetJob(i) /\ expect[i] \in JobRecords) => ret'.rec = expect[i]]_vars

\* C16: a clean_old_jobs that follows a finished clean_old_jobs of the same
\* max_age_days, with the file not written in between, returns 0 and leaves
\* the file as it is.
C16_CleanTwice ==
    [][\A c \in Callers :
         (CleanLeave(c) /\ cleaned.age # 0 /\ cleaned.age = call[c].age)
         => (ret'.count = 0 /\ file' = file)]_vars

\* C16 witness: the first call removed a job, the second has returned 0
C16_Witness ==
    /\ NoCallInProgress
    /\ cleaned.age # 0
    /\ cleaned.removed > 0
    /\ ret.op = "clean_old_jobs"
    /\ ret.ok
    /\ ret.count = 0

\* C17: a clean_old_jobs whose wait for _lock expires returns 0, writes
\* nothing and leaves the lock with the thread that holds it; a
\* clean_old_jobs that acquired the lock holds it until it returns, and it
\* has released it when it returns, whichever way it returns.
C17_CleanLockBounded ==
    /\ [][\A c \in Callers :
            CleanTimeout(c)
            => /\ lock # 0
               /\ lock # c
               /\ lock' = lock
               /\ file' = file
               /\ call' = call
               /\ ret'.count = 0]_vars
    /\ [][\A c \in Callers :
            (call[c].op = "clean_old_jobs" /\ call'[c] = Idle)
            => lock' = 0]_vars
    /\ [](\A c \in Callers : call[c].op = "clean_old_jobs" => lock = c)

\* C17 witness: the wait has expired while another thread holds the lock
C17_Witness ==
    /\ ret.op = "clean_old_jobs"
    /\ ~ret.ok
    /\ ret.count = 0
    /\ lock # 0
    /\ \E c \in Callers : call[c].op \in {"save_job", "delete_job"}

\* C18: load_jobs replaces each value that is not a mapping, and each
\* mapping that lacks the fields of a job, by the placeholder record, and
\* returns every other record as it is on file, with its times converted.
C18_BadRecordsReplaced ==
    [][(LoadJobs /\ file.form = "object")
         => \A i \in JobIds :
              ret'.jobs[i] =
                IF file.jobs[i] = Absent THEN Absent
                ELSE IF file.jobs[i].shape = "dict"
                THEN [file.jobs[i] EXCEPT !.start_time = FromIsoFormat(@),
                                          !.end_time = FromIsoFormat(@)]
                ELSE Placeholder]_vars

\* ---------------------------------------- properties of registry and store
\* C19: delete_job_route removes the job only in a terminal status, and when
\* it has run the job is in neither the registry nor the store and its
\* report directory is gone (stated for the jobs that were not cancelled and
\* whose thread met no fault of its own).
C19_DeleteTerminalOnly ==
    /\ [][(Submitted /\ inReg /\ ~inReg') => job.status \in Terminal]_vars
    /\ [][(deletePending /\ ~deletePending' /\ CleanRun)
            => /\ ~inReg'
               /\ store' = NoJob
               /\ (job.report_path # None => ~artifact')]_vars

\* no request and no thread of the job is in progress
Quiescent ==
    /\ pc \in {"unsubmitted", "done", "crashed"}
    /\ ~cancelPending
    /\ ~deletePending

\* C20: whenever no operation is in progress, the registry and the store
\* hold the same job ids with the same records.
C20_RegistryMirrorsStore ==
    Quiescent => /\ inReg <=> store # NoJob
                 /\ inReg => store = job

\* --------------------------------------------- properties of the last part
\* C21: in every state the record of a submitted job has end_time null while
\* its status is initializing, running or generating_report, whatever the
\* interleaving of the thread with cancel_job.
C21_EndTimeNullUntilTerminal ==
    (Submitted /\ job.status \in NonTerminal) => job.end_time = None

IsPrefix(s, t) == Len(s) <= Len(t) /\ SubSeq(t, 1, Len(s)) = s

\* the thread has passed the reset of line 1128
ResetDone == pc \notin {"unsubmitted", "prelude", "crashed"}

\* C22: from the reset of activities at the start of the thread on, every
\* step leaves the earlier activities and the earlier errors of the record as
\* a prefix of the later ones, in the registry and, while the record is
\* stored, in the store.
C22_ListsOnlyGrow ==
    [][ResetDone
         => /\ IsPrefix(job.activities, job'.activities)
            /\ IsPrefix(job.errors, job'.errors)
            /\ (store # NoJob /\ store' # NoJob)
                 => /\ IsPrefix(store.activities, store'.activities)
                    /\ IsPrefix(store.errors, store'.errors)]_vars

\* two workers' activities and a failing user's error have been appended and
\* stored
C22_Witness ==
    /\ pc = "done"
    /\ Len(job.activities) >= 3
    /\ Len(job.errors) >= 1
    /\ store = job

\* the entries of errors that process_user wrote for user u
TrackErrorsOf(j, u) ==
    {i \in 1 .. Len(j.errors) : j.errors[i] = Err("track_error", u)}

\* the calls of process_user made for user u: the thread's own call for the
\* first user (line 1355) and one pool task (line 1379)
CallsFor(u) == IF u = 1 THEN 2 ELSE 1

\* C23: on a disk where any save of the run may fail, the thread does not
\* end by an exception and the registry's record ends with the status, the
\* activities and the errors that the users' answers and the Report Renderer
\* determine, the same as on a disk where every save succeeds (stated for the
\* runs that are neither cancelled nor deleted and meet no fault of the
\* thread itself).
C23_SaveFailureNoEffect ==
    /\ pc # "crashed"
    /\ pc = "done"
         => /\ job.status = IF RendererAborted(job) THEN "failed"
                            ELSE "completed"
            /\ job.end_time # None
            /\ \A u \in 1 .. Len(users) :
                 /\ Cardinality(EntriesOf(job, u))
                      = IF outcome[u] = "ok" THEN CallsFor(u) ELSE 0
                 /\ Cardinality(TrackErrorsOf(job, u))
                      = IF outcome[u] = "error" THEN CallsFor(u) ELSE 0

\* a run with a failing user has ended completed in the registry while the
\* store, whose last saves failed, still shows it running
C23_Witness ==
    /\ pc = "done"
    /\ ~diskOk
    /\ job.status = "completed"
    /\ store # NoJob
    /\ store.status = "running"
    /\ Len(job.errors) >= 1
    /\ Len(job.activities) >= 2

\* ------------------------------------------------- track_user_activities
\* api/github_client.py 193-475, for one user (user 1).  self.github is an
\* input: get_user returns or raises, and each of the two search_issues
\* calls yields some issues and then ends or raises.

\* issues one search yields
MaxItems == 2

\* the classes an exception of class cls is an instance of
Bases(cls) ==
    CASE cls = "RateLimitExceededException"
           -> {"RateLimitExceededException", "GithubException", "Exception"}
      [] cls = "GithubException" -> {"GithubException", "Exception"}
      [] OTHER -> {cls, "Exception"}

\* the first except clause of the list that takes e, 0 if none does
FirstMatch(e, clauses) ==
    IF \E i \in 1 .. Len(clauses) : clauses[i] \in Bases(e.cls)
    THEN CHOOSE i \in 1 .. Len(clauses) :
           /\ clauses[i] \in Bases(e.cls)
           /\ \A k \in 1 .. (i - 1) : clauses[k] \notin Bases(e.cls)
    ELSE 0

\* what the headers of a RateLimitExceededException hold: a number (the
\* tests), no such key (get returns 0), a string, or headers is None
ResetHeaders == {"int", "missing", "str", "no_headers"}

Faults ==
    {NoFault, Raised("GithubException", "none"), Raised("Exception", "none")}
    \cup {Raised("RateLimitExceededException", h) : h \in ResetHeaders}

\* an issue is a pull request ("pr") or not ("issue")
ItemSeqs ==
    UNION {[1 .. n -> {"pr", "issue"}] : n \in 0 .. MaxItems}

SearchAnswers == {SearchAnswer(items, f) : items \in ItemSeqs, f \in Faults}

\* lines 263-313 and 364-420: the activities appended for the issues yielded
Activities(items, type) ==
    [i \in 1 .. Len(SelectSeq(items, LAMBDA x : x = "pr")) |->
       [user |-> 1, type |-> type]]

\* lines 329-334 and 436-440: datetime.fromtimestamp(e.headers.get(...)) is
\* evaluated before anything is logged
RateLimitHandler(e) ==
    CASE e.reset \in {"int", "missing"}
           -> [logs |-> {"rate_limit"}, raised |-> NoFault]
      [] e.reset = "str"
           -> [logs |-> {}, raised |-> Raised("TypeError", "none")]
      [] OTHER
           -> [logs |-> {}, raised |-> Raised("AttributeError", "none")]

\* lines 327, 336 and 434, 442
InnerClauses == <<"RateLimitExceededException", "GithubException">>

\* SearchClauses taking the errors of the GitHub API only
SearchClausesNarrow == <<"GithubException">>

\* lines 340 and 445
SearchClauses == <<"Exception">>

\* lines 470, 473
OuterClauses == <<"GithubException", "Exception">>

\* the try statement of lines 259-338 (434-443) on the fault e of the search
InnerTry(e) ==
    CASE e = NoFault -> [logs |-> {}, raised |-> NoFault]
      [] e # NoFault /\ FirstMatch(e, InnerClauses) = 1 -> RateLimitHandler(e)
      [] e # NoFault /\ FirstMatch(e, InnerClauses) = 2
           -> [logs |-> {"github_error"}, raised |-> NoFault]
      [] OTHER -> [logs |-> {}, raised |-> e]

\* the try statement of lines 243-341 (344-446) around it
SearchTry(e) ==
    LET inner == InnerTry(e)
    IN IF inner.raised # NoFault /\ FirstMatch(inner.raised, SearchClauses) # 0
       THEN [logs |-> inner.logs \cup {"unexpected"}, raised |-> NoFault]
       ELSE inner

LogsOf(phase, tags) == {<<phase, t>> : t \in tags}

\* the try statement of lines 213-475 on an exception e that reaches it:
\* the call returns [] or e leaves the call
OuterTry(e) ==
    /\ user_activities' = user_activities
    /\ IF FirstMatch(e, OuterClauses) = 0
       THEN /\ tpc' = "raised"
            /\ UNCHANGED <<logged, result>>
       ELSE /\ tpc' = "returned"
            /\ logged' = logged \cup
                 LogsOf("call", IF FirstMatch(e, OuterClauses) = 1
                                THEN {"github_api_error"}
                                ELSE {"unexpected"})
            /\ result' = [kind |-> "list", value |-> <<>>]

notTrack == <<appVars, storeVars, diskOk, fallbackVars, lockVars>>

\* lines 213-234
GetUser ==
    /\ tpc = "get_user"
    /\ IF github.get_user = NoFault
       THEN /\ tpc' = "pulls"
            /\ UNCHANGED <<user_activities, logged, result>>
       ELSE OuterTry(github.get_user)
    /\ UNCHANGED <<github, searched, notTrack>>

\* one search of lines 243-341 or 344-446
Search(phase, ans, type, next) ==
    /\ searched' = searched \cup {phase}
    /\ LET done == SearchTry(ans.fault)
       IN IF done.raised = NoFault
          THEN /\ user_activities' =
                    user_activities \o Activities(ans.items, type)
               /\ logged' = logged \cup LogsOf(phase, done.logs)
               /\ tpc' = next
               /\ UNCHANGED result
          ELSE OuterTry(done.raised)
    /\ UNCHANGED <<github, notTrack>>

SearchPulls ==
    /\ tpc = "pulls"
    /\ Search("pulls", github.pulls, "PullRequestEvent", "reviews")

SearchReviews ==
    /\ tpc = "reviews"
    /\ Search("reviews", github.reviews, "PullRequestReviewEvent", "finish")

\* lines 448-468
ReturnCopy ==
    /\ tpc = "finish"
    /\ result' = [kind |-> "list", value |-> user_activities]
    /\ tpc' = "returned"
    /\ UNCHANGED <<github, user_activities, logged, searched, notTrack>>

TrackNext == GetUser \/ SearchPulls \/ SearchReviews \/ ReturnCopy

TrackInit ==
    /\ AppInit /\ file = EmptyFile /\ StoreIdle
    /\ DiskIdle /\ FallbackIdle /\ LockIdle
    /\ github \in [get_user : Faults, pulls : SearchAnswers,
                   reviews : SearchAnswers]
    /\ tpc = "get_user"
    /\ user_activities = <<>>
    /\ logged = {}
    /\ searched = {}
    /\ result = NoResult

TrackSpec == TrackInit /\ [][TrackNext]_vars

FetchedFor(u) ==
    {w \in Workers : /\ w \in called
                     /\ UserOf(w) = u
                     /\ Finished(w)
                     /\ wres[w] # <<>>}

\* C25: in every state the record holds, for each user, at least as many of
\* the user's activities as calls of process_user have fetched and counted:
\* the count never runs ahead of the merge, in the registry or in the store.
C25_CountedMeansMerged ==
    \A u \in 1 .. Len(users) :
        /\ Cardinality(EntriesOf(job, u)) >= Cardinality(FetchedFor(u))
        /\ (store # NoJob /\ store.processed_users = job.processed_users)
             => Cardinality(EntriesOf(store, u)) >= Cardinality(FetchedFor(u))

\* C26: during one job the Activity Source is called at most once for each
\* user of the list.
C26_OneFetchPerUser ==
    \A u \in 1 .. Len(users) :
        Cardinality({w \in called : UserOf(w) = u}) <= 1

\* -------------------------------------- _save_jobs_internal: the fallback
\* job_storage.py 246-272: os.replace raises and the temporary file is
\* copied over jobs.json after a copy of jobs.json to jobs.json.bak, one
\* shutil.copy2 at a time.

\* a shutil.copy2 succeeds, stops part-way, or fails before it writes
CopyOutcomes == {"ok", "partial", "none"}

\* the destination after shutil.copy2(src, dst)
Copy2(src, dst, how) ==
    CASE how = "ok"      -> src
      [] how = "partial" -> TextFile
      [] OTHER           -> dst

notFallback == <<appVars, backups, call, expect, cleaned, diskOk, trackVars,
                 lockVars>>

\* save_jobs, lines 173-249: the temporary file is written and found valid,
\* then os.replace raises
ReplaceRaises(jobs) ==
    /\ fallback.step = "idle"
    /\ LockFree(lock)
    /\ SaveJobsInternal(jobs, file, "ok").ok
    /\ lock' = 1
    /\ file' = EnsureJobsFile(file)
    /\ fallback' = [step |-> "backup",
                    old  |-> file',
                    new  |-> SaveJobsInternal(jobs, file, "ok").file]
    /\ UNCHANGED <<bak, ret, notFallback>>

\* lines 252-257: a failure of the backup copy is logged as a warning
BackupCopy(how) ==
    /\ fallback.step = "backup"
    /\ bak' = Copy2(file, bak, how)
    /\ fallback' = [fallback EXCEPT !.step = "copy"]
    /\ UNCHANGED <<file, lock, ret, notFallback>>

\* lines 259-272: the copy over jobs.json; when it raises, the handler of
\* line 265 removes the temporary file and False is returned
PrimaryCopy(how) ==
    /\ fallback.step = "copy"
    /\ file' = Copy2(fallback.new, file, how)
    /\ fallback' = [fallback EXCEPT
                      !.step = IF how = "ok" THEN "done" ELSE "failed"]
    /\ ret' = Returned("save_jobs", how = "ok", Absent, NoJobs, 0)
    /\ lock' = 0
    /\ UNCHANGED <<bak, notFallback>>

FallbackNext ==
    \/ \E jobs \in Collections : ReplaceRaises(jobs)
    \/ \E how \in CopyOutcomes : BackupCopy(how)
    \/ \E how \in CopyOutcomes : PrimaryCopy(how)

\* jobs.json holds a valid collection when save_jobs is called
FallbackInit ==
    /\ AppInit /\ StoreIdle /\ DiskIdle /\ TrackIdle /\ FallbackIdle /\ LockIdle
    /\ file \in {f \in InitialFiles : f.form = "object"}

FallbackSpec == FallbackInit /\ [][FallbackNext]_vars

\* C27: from the moment os.replace has raised, when jobs.json held a valid
\* collection, jobs.json holds that collection or the new one, or
\* jobs.json.bak holds that collection, at every step of the fallback and
\* after a step has failed.
C27_FallbackKeepsCollection ==
    (fallback.step # "idle" /\ fallback.old.form = "object")
    => \/ file \in {fallback.old, fallback.new}
       \/ bak = fallback.old

\* delete_job_route has removed the job from the registry and from the store
Deleted == Submitted /\ ~inReg /\ ~deletePending

\* C28: once delete_job_route has removed the job, the store holds no record
\* of it in any later state, whatever the job's thread and workers do.
C28_DeletedStaysAbsent ==
    [][(Deleted /\ ~cancelPending /\ store = NoJob) => store' = NoJob]_vars

\* C29: run_activity_tracking never ends by an exception, whatever cancel_job
\* and delete_job_route do meanwhile and whatever statement of its body
\* raises, the job being absent from the registry at its start included.
C29_ReturnsNormally ==
    pc # "crashed"

\* ------------------------------------------------------------- the locks
\* status_lock of run_activity_tracking (app.py 1147) and _lock of
\* job_storage (job_storage.py 28), as the threads of one job and the
\* requests served meanwhile take them.  Each thread runs one operation.

\* LocksOf with the store lock taken first
LocksOfStoreFirst(op) ==
    CASE op = "update"          -> <<"status_lock">>
      [] op = "update_and_save" -> <<"_lock", "status_lock">>
      [] OTHER                  -> <<"_lock">>

\* the locks an operation takes, in the order it takes them:
\* "update" is a with status_lock block that only writes the record (1169,
\* 1352, 1359, 1366, 1394), "update_and_save" one that calls save_job inside
\* (1249, 1271, 1285, 1302, 1312, 1329, 1399, 1406), the others are calls of
\* job_storage from outside such a block (save_job: 497, 600, 1437, 1525,
\* 1534, 1560; delete_job: 632; clean_old_jobs)
LocksOf(op) ==
    CASE op = "update"          -> <<"status_lock">>
      [] op = "update_and_save" -> <<"status_lock", "_lock">>
      [] OTHER                  -> <<"_lock">>

\* status_lock is local to run_activity_tracking: thread 1 and its workers
\* take it, the request handlers cannot
OpsOf(t) ==
    IF t = 1 THEN {"update", "update_and_save", "save_job"}
    ELSE {"update", "update_and_save", "save_job", "delete_job",
          "clean_old_jobs"}

Gone == AtLock("none", 0, TRUE)

Holder(name) == IF name = "_lock" THEN lock ELSE status_lock

\* the lock thread t is to take next
Wanted(t) == LocksOf(at[t].op)[at[t].held + 1]

\* thread t is blocked in an acquire
Waiting(t) ==
    /\ at[t].op # "none"
    /\ ~at[t].leaving
    /\ at[t].held < Len(LocksOf(at[t].op))

notLock == <<appVars, file, backups, call, ret, expect, cleaned, diskOk,
             trackVars, fallbackVars>>

\* a thread reaches an operation
Begin(t, op) ==
    /\ at[t] = Away
    /\ op \in OpsOf(t)
    /\ at' = [at EXCEPT ![t] = AtLock(op, 0, FALSE)]
    /\ UNCHANGED <<lock, status_lock, notLock>>

\* with status_lock / with _lock / _lock.acquire(timeout=2): the lock is free
\* and the thread takes it; with its last lock it runs the body
Acquire(t) ==
    /\ Waiting(t)
    /\ Holder(Wanted(t)) = 0
    /\ IF Wanted(t) = "_lock"
       THEN lock' = t /\ UNCHANGED status_lock
       ELSE status_lock' = t /\ UNCHANGED lock
    /\ at' = [at EXCEPT ![t] =
                AtLock(@.op, @.held + 1, @.held + 1 = Len(LocksOf(@.op)))]
    /\ UNCHANGED notLock

\* the end of a with block, or the finally clause of clean_old_jobs
\* (job_storage.py 472-480): the lock taken last is released
Release(t) ==
    /\ at[t].leaving
    /\ at[t].held > 0
    /\ IF LocksOf(at[t].op)[at[t].held] = "_lock"
       THEN lock' = 0 /\ UNCHANGED status_lock
       ELSE status_lock' = 0 /\ UNCHANGED lock
    /\ at' = [at EXCEPT ![t] =
                IF @.held = 1 THEN Gone
                ELSE AtLock(@.op, @.held - 1, TRUE)]
    /\ UNCHANGED notLock

\* job_storage.py 387-390: the two seconds pass and clean_old_jobs returns 0
Timeout(t) ==
    /\ at[t].op = "clean_old_jobs"
    /\ Waiting(t)
    /\ lock # 0
    /\ at' = [at EXCEPT ![t] = Gone]
    /\ UNCHANGED <<lock, status_lock, notLock>>

\* what thread t does once it is in an operation
Proceed(t) == Acquire(t) \/ Release(t) \/ Timeout(t)

LockNext ==
    \/ \E t \in Threads, op \in {"update", "update_and_save", "save_job",
                                 "delete_job", "clean_old_jobs"} : Begin(t, op)
    \/ \E t \in Threads : Acquire(t)
    \/ \E t \in Threads : Release(t)
    \/ \E t \in Threads : Timeout(t)

LockInit ==
    /\ AppInit /\ file = EmptyFile /\ StoreIdle
    /\ DiskIdle /\ TrackIdle /\ FallbackIdle /\ LockIdle

LockSpec == LockInit /\ [][LockNext]_vars

\* a thread that can run does run
LockFairSpec == LockSpec /\ \A t \in Threads : WF_vars(Proceed(t))

\* thread t holds the store lock and not status_lock, and waits for it
StoreBeforeStatus(t) ==
    /\ lock = t
    /\ status_lock # t
    /\ Waiting(t)
    /\ Wanted(t) = "status_lock"

\* C30: no thread asks for status_lock while it holds _lock, a thread out of
\* its operation holds no lock, and every thread waiting for a lock comes to
\* hold it or, in clean_old_jobs, to give up: no interleaving of the job's
\* threads with cancel, delete and clean_old_jobs requests deadlocks.
C30_NoDeadlock ==
    /\ [](\A t \in Threads :
            /\ ~StoreBeforeStatus(t)
            /\ at[t].op = "none" => (lock # t /\ status_lock # t))
    /\ \A t \in Threads : Waiting(t) ~> ~Waiting(t)

\* a worker holds status_lock and waits for _lock, which a clean_old_jobs
\* call holds, while the thread waits for status_lock
C30_Witness ==
    \E t, u, v \in Threads :
        /\ at[t] = AtLock("update_and_save", 1, FALSE)
        /\ status_lock = t
        /\ at[u].op = "clean_old_jobs"
        /\ lock = u
        /\ at[v] = AtLock("update", 0, FALSE)
====
